---- MODULE Spec2Model ----
(***************************************************************************)
(* llvm-cov gcov: the companion-file resolution and validation pipeline    *)
(* (llvm/tools/llvm-cov/gcov.cpp).  gcovMain walks the SOURCEFILE list and *)
(* calls reportCoverage once per entry; reportCoverage derives the .gcno   *)
(* and .gcda names, loads and validates both files and hands the graph to  *)
(* gcovOneInput.                                                           *)
(*                                                                         *)
(* Strings are sequences of one-character strings, so that the path        *)
(* operations and the string concatenations of the code are computed, not  *)
(* assumed.  A string literal of a diagnostic is kept as one token.         *)
(***************************************************************************)
EXTENDS Integers, Sequences, FiniteSets

VARIABLES
  SourceFiles,      \* cl::list<std::string> SourceFiles, after parsing
  ObjectDir,        \* cl::opt<std::string> -o
  InputGCNO,        \* cl::opt<std::string> --gcno
  InputGCDA,        \* cl::opt<std::string> --gcda
  DumpGCOV,         \* cl::opt<bool> --dump
  dirs,             \* the paths that are existing directories
  fs,               \* what opening a file name yields, fixed at first access
  stdinRead,        \* TRUE once standard input has been read to its end
  pc,               \* position of the single thread of control
  idx,              \* number of SourceFiles entries the for loop has taken
  exitCode,         \* gcovMain's return value, -1 while it has not returned
  SourceFile,       \* reportCoverage's parameter
  GF,               \* reportCoverage's local GCOVFile
  CoverageFileStem, \* reportCoverage's local stem
  GCNO,             \* reportCoverage's local notes-file name
  GCNO_Buff,        \* reportCoverage's local ErrorOr<unique_ptr<MemoryBuffer>>
  GCDA,             \* reportCoverage's local data-file name
  GCDA_Buff,        \* reportCoverage's local ErrorOr<unique_ptr<MemoryBuffer>>
  errs,             \* everything written to errs(), in order
  hist              \* per reportCoverage call: the calls it made and how it ended

vars == <<SourceFiles, ObjectDir, InputGCNO, InputGCDA, DumpGCOV, dirs, fs,
          stdinRead, pc, idx, exitCode, SourceFile, GF, CoverageFileStem,
          GCNO, GCNO_Buff, GCDA, GCDA_Buff, errs, hist>>

config == <<SourceFiles, ObjectDir, InputGCNO, InputGCDA, DumpGCOV, dirs>>

(***************************************************************************)
(* Bounds and input domains.                                               *)
(***************************************************************************)
MaxFiles == 2

SourcePaths == { <<"a", ".", "c">>, <<"d", "/", "b", ".", "c">> }

ObjectDirs == { <<>>, <<"o">>, <<"x", ".", "o">> }

Overrides == { <<>>, <<"-">>, <<"n">> }

Options == "Options"

Contents == { "gcno", "gcda", "gcdaBad", "empty" }

ErrorCodes == { "ENOENT", "EIO" }

RECURSIVE SeqsUpTo(_, _)
SeqsUpTo(S, n) ==
  IF n = 0 THEN { <<>> }
  ELSE LET shorter == SeqsUpTo(S, n - 1)
       IN  shorter \cup { Append(s, x) : s \in shorter, x \in S }

(***************************************************************************)
(* llvm::sys::path on character sequences.                                 *)
(***************************************************************************)
LastIndexOf(s, c) ==
  LET hits == { i \in 1..Len(s) : s[i] = c }
  IN  IF hits = {} THEN 0 ELSE CHOOSE i \in hits : \A j \in hits : j <= i

filename(p) ==
  IF p # <<>> /\ p[Len(p)] = "/" /\ Len(p) > 1 THEN <<".">>
  ELSE SubSeq(p, LastIndexOf(p, "/") + 1, Len(p))

parent_path(p) ==
  LET k == LastIndexOf(p, "/")
  IN  IF k = 0 THEN <<>>
      ELSE IF k = 1 THEN <<"/">>
      ELSE SubSeq(p, 1, k - 1)

stem(p) ==
  LET fname == filename(p)
      pos   == LastIndexOf(fname, ".")
  IN  IF pos = 0 THEN fname
      ELSE IF fname = <<".">> \/ fname = <<".", ".">> THEN fname
      ELSE SubSeq(fname, 1, pos - 1)

append(path, component) ==
  IF component = <<>> THEN path
  ELSE IF path = <<>> THEN component
  ELSE IF path[Len(path)] = "/" THEN path \o component
  ELSE path \o <<"/">> \o component

replace_extension(p, ext) ==
  LET pos  == LastIndexOf(p, ".")
      cut  == IF pos # 0 /\ pos > LastIndexOf(p, "/")
              THEN SubSeq(p, 1, pos - 1) ELSE p
      dot  == IF ext # <<>> /\ ext[1] # "." THEN <<".">> ELSE <<>>
  IN  cut \o dot \o ext

is_directory(p) == p \in dirs

(***************************************************************************)
(* The static helpers of gcov.cpp.                                         *)
(***************************************************************************)
\* Mutant: a non-empty -o is always taken for a directory.
createCoverageFileStemAlwaysDir(Src, ObjDir) ==
  IF ObjDir = <<>>
  THEN append(parent_path(Src), stem(Src))
  ELSE append(ObjDir, stem(Src))

createCoverageFileStem(Src, ObjDir) ==
  IF ObjDir = <<>>
  THEN append(parent_path(Src), stem(Src))
  ELSE IF is_directory(ObjDir)
  THEN append(ObjDir, stem(Src))
  ELSE replace_extension(ObjDir, <<>>)

\* Mutant: the override is used as a stem, the suffix is still appended.
createInputFileNameSuffixed(Stem, InputGCFileName, extensionSuffix) ==
  (IF InputGCFileName = <<>> THEN Stem ELSE InputGCFileName)
    \o <<".", "g", "c">> \o extensionSuffix

createInputFileName(Stem, InputGCFileName, extensionSuffix) ==
  IF InputGCFileName = <<>>
  THEN Stem \o <<".", "g", "c">> \o extensionSuffix
  ELSE InputGCFileName

message(EC) ==
  IF EC = "ENOENT" THEN <<"No such file or directory">>
  ELSE <<"Input/output error">>

\* Mutant: the diagnostic without the file name.
reportGCOVFileNameErrorNoName(GCOVFileName, EC) ==
  message(EC) \o <<"\n">>

reportGCOVFileNameError(GCOVFileName, EC) ==
  GCOVFileName \o <<": ">> \o message(EC) \o <<"\n">>

(***************************************************************************)
(* ErrorOr<std::unique_ptr<MemoryBuffer>>: <<"err", code>> or              *)
(* <<"buf", content>>; <<"none">> is a buffer that is not (or no longer)   *)
(* held.                                                                   *)
(***************************************************************************)
NoBuffer == <<"none">>

getError(B) == IF B[1] = "err" THEN B[2] ELSE "none"

Known(name) == \E e \in fs : e[1] = name

Opened(name) == (CHOOSE e \in fs : e[1] = name)[2]

\* The results MemoryBuffer::getFileOrSTDIN(name) can give in this state.
\* "-" is standard input: read to its end once, empty afterwards.
LoadResults(name) ==
  IF name = <<"-">>
  THEN IF stdinRead THEN { <<"buf", "empty">> }
       ELSE { <<"buf", c>> : c \in Contents } \cup { <<"err", "EIO">> }
  ELSE IF Known(name) THEN { Opened(name) }
  ELSE { <<"buf", c>> : c \in Contents } \cup { <<"err", e>> : e \in ErrorCodes }

\* The environment after getFileOrSTDIN(name) returned B.
FsAfter(name, B) ==
  IF name = <<"-">> THEN fs ELSE fs \cup { <<name, B>> }

StdinAfter(name, B) ==
  IF name = <<"-">> /\ B[1] = "buf" THEN TRUE ELSE stdinRead

\* GCOVFile::readGCNO, GCOVBuffer::readGCDAFormat, GCOVFile::readGCDA.
readGCNO(content) == content = "gcno"

readGCDAFormat(content) == content \in { "gcda", "gcdaBad" }

readGCDA(content) == content = "gcda"

\* What a read leaves in the graph: where it came from and whether the
\* reader accepted it.
Part(kind, name, ok) == [kind |-> kind, from |-> name, run |-> idx, ok |-> ok]

Event(op, arg) == [op |-> op, arg |-> arg]

\* getGCOVFileOrSTDIN(name) returned B.
Loaded(name, B) == Event("load", [name |-> name, res |-> B])

\* hist with the events es added to the running call.
Logged(es) == [hist EXCEPT ![Len(hist)].calls = @ \o es]

\* hist with the events es added and the running call ended.
Ended(es, how) ==
  [hist EXCEPT ![Len(hist)].calls = @ \o es, ![Len(hist)].outcome = how]

Init ==
  /\ SourceFiles \in SeqsUpTo(SourcePaths, MaxFiles) \ { <<>> }
  /\ ObjectDir \in ObjectDirs
  /\ InputGCNO \in Overrides
  /\ InputGCDA \in Overrides
  /\ DumpGCOV \in BOOLEAN
  /\ dirs \in SUBSET ({ ObjectDir } \ { <<>> })
  /\ fs = {}
  /\ stdinRead = FALSE
  /\ pc = "loop"
  /\ idx = 0
  /\ exitCode = -1
  /\ SourceFile = <<>>
  /\ GF = {}
  /\ CoverageFileStem = <<>>
  /\ GCNO = <<>>
  /\ GCNO_Buff = NoBuffer
  /\ GCDA = <<>>
  /\ GCDA_Buff = NoBuffer
  /\ errs = <<>>
  /\ hist = <<>>

(***************************************************************************)
(* validateGCNOFile and validateGCDAFile, as functions of the graph and    *)
(* the buffer: the value returned, the graph afterwards, the text written  *)
(* to errs() and the collaborator calls made.                              *)
(***************************************************************************)
\* Mutant: a rejected notes file is not reported.
validateGCNOFileSilent(Buff, G) ==
  LET ok == readGCNO(Buff[2])
  IN  [ ret   |-> ok,
        GF    |-> G \cup { Part("notes", GCNO, ok) },
        out   |-> <<>>,
        calls |-> << Event("readGCNO", [graph |-> G, ret |-> ok]) >> ]

\* Mutant: the reader's verdict is not returned.
validateGCNOFileIgnoringReader(Buff, G) ==
  LET ok == readGCNO(Buff[2])
  IN  [ ret   |-> TRUE,
        GF    |-> G \cup { Part("notes", GCNO, ok) },
        out   |-> IF ok THEN <<>> ELSE <<"Invalid .gcno File!\n">>,
        calls |-> << Event("readGCNO", [graph |-> G, ret |-> ok]) >> ]

validateGCNOFile(Buff, G) ==
  LET ok == readGCNO(Buff[2])
  IN  [ ret   |-> ok,
        GF    |-> G \cup { Part("notes", GCNO, ok) },
        out   |-> IF ok THEN <<>> ELSE <<"Invalid .gcno File!\n">>,
        calls |-> << Event("readGCNO", [graph |-> G, ret |-> ok]) >> ]

\* Mutant: the structural read comes first, the header check after it.
validateGCDAFileReadsFirst(G, Name, Buff) ==
  LET hdr == readGCDAFormat(Buff[2])
      ok  == readGCDA(Buff[2])
  IN  [ GF    |-> IF hdr THEN G \cup { Part("data", Name, ok) } ELSE G,
        out   |-> IF ~hdr THEN Name \o <<":not a gcov data file\n">>
                  ELSE IF ok THEN <<>> ELSE <<"Invalid .gcda File!\n">>,
        calls |-> << Event("readGCDA", [graph |-> G, ret |-> ok]),
                     Event("readGCDAFormat", hdr) >> ]

\* Mutant: the structural read is attempted whatever the header check said.
validateGCDAFileNoElse(G, Name, Buff) ==
  LET hdr == readGCDAFormat(Buff[2])
      ok  == readGCDA(Buff[2])
  IN  [ GF    |-> G \cup { Part("data", Name, ok) },
        out   |-> (IF hdr THEN <<>> ELSE Name \o <<":not a gcov data file\n">>)
                    \o (IF ok THEN <<>> ELSE <<"Invalid .gcda File!\n">>),
        calls |-> << Event("readGCDAFormat", hdr),
                     Event("readGCDA", [graph |-> G, ret |-> ok]) >> ]

validateGCDAFile(G, Name, Buff) ==
  IF ~readGCDAFormat(Buff[2])
  THEN [ GF    |-> G,
         out   |-> Name \o <<":not a gcov data file\n">>,
         calls |-> << Event("readGCDAFormat", FALSE) >> ]
  ELSE LET ok == readGCDA(Buff[2])
       IN  [ GF    |-> G \cup { Part("data", Name, ok) },
             out   |-> IF ok THEN <<>> ELSE <<"Invalid .gcda File!\n">>,
             calls |-> << Event("readGCDAFormat", TRUE),
                          Event("readGCDA", [graph |-> G, ret |-> ok]) >> ]

\* GCOVFile::print: what the dump shows of the graph.
print(G) ==
  <<"dump">>
    \o (IF \E q \in G : q.kind = "notes" THEN <<"notes">> ELSE <<>>)
    \o (IF \E q \in G : q.kind = "data" THEN <<"data">> ELSE <<>>)
    \o <<"\n">>

\* An errs() write as an event of the running call; nothing for no text.
Wrote(text) == IF text = <<>> THEN <<>> ELSE << Event("errs", text) >>

\* Mutant: the graph outlives the call (a static or hoisted GCOVFile).
SharedGCOVFile == IF hist = <<>> THEN {} ELSE hist[Len(hist)].graph

\* `GCOVFile GF;`: a default-constructed graph.
NewGCOVFile == {}

\* Mutant: the buffers are not released at return.
ReturnedKeepingBuffers ==
  /\ pc' = "loop"
  /\ SourceFile' = <<>>
  /\ GF' = {}
  /\ CoverageFileStem' = <<>>
  /\ GCNO' = <<>>
  /\ GCDA' = <<>>
  /\ UNCHANGED <<GCNO_Buff, GCDA_Buff>>

\* reportCoverage returns: its locals are destroyed.
Returned ==
  /\ pc' = "loop"
  /\ SourceFile' = <<>>
  /\ GF' = {}
  /\ CoverageFileStem' = <<>>
  /\ GCNO' = <<>>
  /\ GCNO_Buff' = NoBuffer
  /\ GCDA' = <<>>
  /\ GCDA_Buff' = NoBuffer

(***************************************************************************)
(* gcovMain's loop and the steps of reportCoverage.                        *)
(***************************************************************************)
\* for (const auto &SourceFile : SourceFiles) reportCoverage(...): entry,
\* `GCOVFile GF;` and createCoverageFileStem.
CallReportCoverage ==
  /\ pc = "loop"
  /\ idx < Len(SourceFiles)
  /\ idx' = idx + 1
  /\ SourceFile' = SourceFiles[idx + 1]
  /\ GF' = NewGCOVFile
  /\ CoverageFileStem' = createCoverageFileStem(SourceFiles[idx + 1], ObjectDir)
  /\ pc' = "loadNotes"
  /\ hist' = Append(hist, [ SourceFile |-> SourceFiles[idx + 1],
                            calls      |-> <<>>,
                            outcome    |-> "running",
                            graph      |-> {} ])
  /\ UNCHANGED <<config, fs, stdinRead, exitCode, GCNO, GCNO_Buff, GCDA,
                 GCDA_Buff, errs>>

\* Lines 90-95: name and load the notes file; a load error ends the call.
LoadNotes ==
  /\ pc = "loadNotes"
  /\ LET name == createInputFileName(CoverageFileStem, InputGCNO, <<"n", "o">>)
     IN  \E B \in LoadResults(name) :
           /\ fs' = FsAfter(name, B)
           /\ stdinRead' = StdinAfter(name, B)
           /\ IF getError(B) # "none"
              THEN LET text == reportGCOVFileNameError(name, getError(B))
                   IN  /\ errs' = errs \o text
                       /\ hist' = Ended(<< Loaded(name, B) >> \o Wrote(text),
                                        "Failed")
                       /\ Returned
              ELSE /\ GCNO' = name
                   /\ GCNO_Buff' = B
                   /\ pc' = "validateNotes"
                   /\ hist' = Logged(<< Loaded(name, B) >>)
                   /\ UNCHANGED <<SourceFile, GF, CoverageFileStem, GCDA,
                                  GCDA_Buff, errs>>
  /\ UNCHANGED <<config, idx, exitCode>>

\* Mutant: a rejected notes file is reported but the call goes on.
ValidateNotesGoesOn ==
  /\ pc = "validateNotes"
  /\ LET v == validateGCNOFile(GCNO_Buff, GF)
     IN  /\ errs' = errs \o v.out
         /\ GF' = v.GF
         /\ hist' = Logged(v.calls \o Wrote(v.out))
  /\ pc' = "loadData"
  /\ UNCHANGED <<config, fs, stdinRead, idx, exitCode, SourceFile,
                 CoverageFileStem, GCNO, GCNO_Buff, GCDA, GCDA_Buff>>

\* Lines 97-98: validateGCNOFile; a rejected notes file ends the call.
ValidateNotes ==
  /\ pc = "validateNotes"
  /\ LET v == validateGCNOFile(GCNO_Buff, GF)
     IN  /\ errs' = errs \o v.out
         /\ IF ~v.ret
            THEN /\ hist' = [ Ended(v.calls \o Wrote(v.out), "Failed")
                                EXCEPT ![Len(hist)].graph = v.GF ]
                 /\ Returned
            ELSE /\ GF' = v.GF
                 /\ pc' = "loadData"
                 /\ hist' = Logged(v.calls \o Wrote(v.out))
                 /\ UNCHANGED <<SourceFile, CoverageFileStem, GCNO, GCNO_Buff,
                                GCDA, GCDA_Buff>>
  /\ UNCHANGED <<config, fs, stdinRead, idx, exitCode>>

\* Mutant: after a missing data file the substituted name "-" is loaded.
LoadDataReadsPlaceholder ==
  /\ pc = "loadData"
  /\ LET name == createInputFileName(CoverageFileStem, InputGCDA, <<"d", "a">>)
     IN  \E B \in LoadResults(name) :
           /\ fs' = FsAfter(name, B)
           /\ IF getError(B) # "none" /\ getError(B) # "ENOENT"
              THEN LET text == reportGCOVFileNameError(name, getError(B))
                   IN  /\ stdinRead' = StdinAfter(name, B)
                       /\ errs' = errs \o text
                       /\ hist' = [ Ended(<< Loaded(name, B) >> \o Wrote(text),
                                          "Failed")
                                      EXCEPT ![Len(hist)].graph = GF ]
                       /\ Returned
              ELSE IF getError(B) = "ENOENT"
              THEN \E B2 \in LoadResults(<<"-">>) :
                     /\ stdinRead' = StdinAfter(<<"-">>, B2)
                     /\ GCDA' = <<"-">>
                     /\ GCDA_Buff' = B2
                     /\ pc' = IF B2[1] = "buf" THEN "validateData" ELSE "report"
                     /\ hist' = Logged(<< Loaded(name, B), Loaded(<<"-">>, B2) >>)
                     /\ UNCHANGED <<SourceFile, GF, CoverageFileStem, GCNO,
                                    GCNO_Buff, errs>>
              ELSE /\ stdinRead' = StdinAfter(name, B)
                   /\ GCDA' = name
                   /\ GCDA_Buff' = B
                   /\ pc' = "validateData"
                   /\ hist' = Logged(<< Loaded(name, B) >>)
                   /\ UNCHANGED <<SourceFile, GF, CoverageFileStem, GCNO,
                                  GCNO_Buff, errs>>
  /\ UNCHANGED <<config, idx, exitCode>>

\* Mutant: after a missing data file the name is left as it was.
LoadDataKeepsName ==
  /\ pc = "loadData"
  /\ LET name == createInputFileName(CoverageFileStem, InputGCDA, <<"d", "a">>)
     IN  \E B \in LoadResults(name) :
           /\ fs' = FsAfter(name, B)
           /\ stdinRead' = StdinAfter(name, B)
           /\ IF getError(B) # "none" /\ getError(B) # "ENOENT"
              THEN LET text == reportGCOVFileNameError(name, getError(B))
                   IN  /\ errs' = errs \o text
                       /\ hist' = [ Ended(<< Loaded(name, B) >> \o Wrote(text),
                                          "Failed")
                                      EXCEPT ![Len(hist)].graph = GF ]
                       /\ Returned
              ELSE /\ GCDA' = name
                   /\ GCDA_Buff' = B
                   /\ pc' = IF getError(B) = "ENOENT" THEN "report"
                            ELSE "validateData"
                   /\ hist' = Logged(<< Loaded(name, B) >>)
                   /\ UNCHANGED <<SourceFile, GF, CoverageFileStem, GCNO,
                                  GCNO_Buff, errs>>
  /\ UNCHANGED <<config, idx, exitCode>>

\* Mutant: every load error of the data file is taken for a missing file.
LoadDataAnyErrorIsMissing ==
  /\ pc = "loadData"
  /\ LET name == createInputFileName(CoverageFileStem, InputGCDA, <<"d", "a">>)
     IN  \E B \in LoadResults(name) :
           /\ fs' = FsAfter(name, B)
           /\ stdinRead' = StdinAfter(name, B)
           /\ GCDA' = IF getError(B) # "none" THEN <<"-">> ELSE name
           /\ GCDA_Buff' = B
           /\ pc' = IF getError(B) # "none" THEN "report" ELSE "validateData"
           /\ hist' = Logged(<< Loaded(name, B) >>)
           /\ UNCHANGED <<SourceFile, GF, CoverageFileStem, GCNO, GCNO_Buff,
                          errs>>
  /\ UNCHANGED <<config, idx, exitCode>>

\* Lines 100-110: name and load the data file; a missing file is replaced
\* by "-", any other load error ends the call.
LoadData ==
  /\ pc = "loadData"
  /\ LET name == createInputFileName(CoverageFileStem, InputGCDA, <<"d", "a">>)
     IN  \E B \in LoadResults(name) :
           /\ fs' = FsAfter(name, B)
           /\ stdinRead' = StdinAfter(name, B)
           /\ IF getError(B) # "none" /\ getError(B) # "ENOENT"
              THEN LET text == reportGCOVFileNameError(name, getError(B))
                   IN  /\ errs' = errs \o text
                       /\ hist' = [ Ended(<< Loaded(name, B) >> \o Wrote(text),
                                          "Failed")
                                      EXCEPT ![Len(hist)].graph = GF ]
                       /\ Returned
              ELSE /\ GCDA' = IF getError(B) = "ENOENT" THEN <<"-">> ELSE name
                   /\ GCDA_Buff' = B
                   /\ pc' = IF getError(B) = "ENOENT" THEN "report"
                            ELSE "validateData"
                   /\ hist' = Logged(<< Loaded(name, B) >>)
                   /\ UNCHANGED <<SourceFile, GF, CoverageFileStem, GCNO,
                                  GCNO_Buff, errs>>
  /\ UNCHANGED <<config, idx, exitCode>>

\* Mutant: a data file that validateGCDAFile complains about is renamed "-".
ValidateDataClearsName ==
  /\ pc = "validateData"
  /\ LET v == validateGCDAFile(GF, GCDA, GCDA_Buff)
     IN  /\ errs' = errs \o v.out
         /\ GF' = v.GF
         /\ GCDA' = IF v.out # <<>> THEN <<"-">> ELSE GCDA
         /\ hist' = Logged(v.calls \o Wrote(v.out))
  /\ pc' = "report"
  /\ UNCHANGED <<config, fs, stdinRead, idx, exitCode, SourceFile,
                 CoverageFileStem, GCNO, GCNO_Buff, GCDA_Buff>>

\* Mutant: a data file that validateGCDAFile complains about ends the call.
ValidateDataAbortsOnInvalid ==
  /\ pc = "validateData"
  /\ LET v == validateGCDAFile(GF, GCDA, GCDA_Buff)
     IN  /\ errs' = errs \o v.out
         /\ IF v.out # <<>>
            THEN /\ hist' = [ Ended(v.calls \o Wrote(v.out), "Failed")
                                EXCEPT ![Len(hist)].graph = v.GF ]
                 /\ Returned
            ELSE /\ GF' = v.GF
                 /\ pc' = "report"
                 /\ hist' = Logged(v.calls \o Wrote(v.out))
                 /\ UNCHANGED <<SourceFile, CoverageFileStem, GCNO, GCNO_Buff,
                                GCDA, GCDA_Buff>>
  /\ UNCHANGED <<config, fs, stdinRead, idx, exitCode>>

\* Line 111: validateGCDAFile; whatever it finds, the call goes on.
ValidateData ==
  /\ pc = "validateData"
  /\ LET v == validateGCDAFile(GF, GCDA, GCDA_Buff)
     IN  /\ errs' = errs \o v.out
         /\ GF' = v.GF
         /\ hist' = Logged(v.calls \o Wrote(v.out))
  /\ pc' = "report"
  /\ UNCHANGED <<config, fs, stdinRead, idx, exitCode, SourceFile,
                 CoverageFileStem, GCNO, GCNO_Buff, GCDA, GCDA_Buff>>

\* Mutant: the graph is dumped whatever --dump says.
ReportAlwaysDumps ==
  /\ pc = "report"
  /\ LET text == print(GF)
         call == Event("gcovOneInput",
                       [ Options |-> Options, SourceFile |-> SourceFile,
                         GCNO |-> GCNO, GCDA |-> GCDA, GF |-> GF ])
     IN  /\ errs' = errs \o text
         /\ hist' = [ Ended(<< Event("print", text), call >>, "Done")
                        EXCEPT ![Len(hist)].graph = GF ]
  /\ Returned
  /\ UNCHANGED <<config, fs, stdinRead, idx, exitCode>>

\* Lines 114-118: the optional dump, gcovOneInput, return.
Report ==
  /\ pc = "report"
  /\ LET text == IF DumpGCOV THEN print(GF) ELSE <<>>
         dump == IF DumpGCOV THEN << Event("print", text) >> ELSE <<>>
         call == Event("gcovOneInput",
                       [ Options |-> Options, SourceFile |-> SourceFile,
                         GCNO |-> GCNO, GCDA |-> GCDA, GF |-> GF ])
     IN  /\ errs' = errs \o text
         /\ hist' = [ Ended(dump \o << call >>, "Done")
                        EXCEPT ![Len(hist)].graph = GF ]
  /\ Returned
  /\ UNCHANGED <<config, fs, stdinRead, idx, exitCode>>

\* Mutant: the loop is left as soon as a call has failed.
ReturnFromMainOnFailure ==
  /\ pc = "loop"
  /\ \/ idx = Len(SourceFiles)
     \/ idx > 0 /\ hist[idx].outcome = "Failed"
  /\ exitCode' = 0
  /\ pc' = "exit"
  /\ UNCHANGED <<config, fs, stdinRead, idx, SourceFile, GF, CoverageFileStem,
                 GCNO, GCNO_Buff, GCDA, GCDA_Buff, errs, hist>>

\* Mutant: a failed call is propagated as the exit status.
ReturnFromMainFailureStatus ==
  /\ pc = "loop"
  /\ idx = Len(SourceFiles)
  /\ exitCode' = IF \E i \in 1..Len(hist) : hist[i].outcome = "Failed"
                 THEN 1 ELSE 0
  /\ pc' = "exit"
  /\ UNCHANGED <<config, fs, stdinRead, idx, SourceFile, GF, CoverageFileStem,
                 GCNO, GCNO_Buff, GCDA, GCDA_Buff, errs, hist>>

\* Line 214: return 0.
ReturnFromMain ==
  /\ pc = "loop"
  /\ idx = Len(SourceFiles)
  /\ exitCode' = 0
  /\ pc' = "exit"
  /\ UNCHANGED <<config, fs, stdinRead, idx, SourceFile, GF, CoverageFileStem,
                 GCNO, GCNO_Buff, GCDA, GCDA_Buff, errs, hist>>

Next ==
  \/ CallReportCoverage
  \/ LoadNotes
  \/ ValidateNotes
  \/ LoadData
  \/ ValidateData
  \/ Report
  \/ ReturnFromMain

Spec == Init /\ [][Next]_vars

\* The program is one thread whose every call returns: a step that can be
\* taken is taken.
FairSpec == Spec /\ WF_vars(Next)

(***************************************************************************)
(* Vocabulary of the properties: what a reportCoverage call did, read off  *)
(* its record in hist.                                                     *)
(***************************************************************************)
Runs == 1..Len(hist)

Calls(i) == hist[i].calls

At(i, op) == { k \in 1..Len(Calls(i)) : Calls(i)[k].op = op }

EndedRun(i) == hist[i].outcome \in { "Done", "Failed" }

\* The artifact names reportCoverage resolves for call i.
ResolvedStem(i) == createCoverageFileStem(hist[i].SourceFile, ObjectDir)

ResolvedGCNO(i) == IF InputGCNO = <<>>
                   THEN ResolvedStem(i) \o <<".", "g", "c", "n", "o">>
                   ELSE InputGCNO

ResolvedGCDA(i) == IF InputGCDA = <<>>
                   THEN ResolvedStem(i) \o <<".", "g", "c", "d", "a">>
                   ELSE InputGCDA

\* The first load of a call is the notes load, a second one the data load.
NotesLoad(i) == Calls(i)[1].arg

HasNotesLoad(i) == Len(Calls(i)) >= 1

DataLoadAt(i) == { k \in At(i, "load") : k > 1 }

DataLoad(i) == Calls(i)[CHOOSE k \in DataLoadAt(i) : TRUE].arg

\* The diagnostics call i wrote, dump output aside, one entry per write.
RECURSIVE Texts(_)
Texts(es) ==
  IF es = <<>> THEN <<>>
  ELSE (IF Head(es).op = "errs" THEN << Head(es).arg >> ELSE <<>>)
         \o Texts(Tail(es))

Diagnostics(i) == Texts(Calls(i))

\* Everything the calls wrote, dump output included, as one stream.
RECURSIVE Written(_)
Written(es) ==
  IF es = <<>> THEN <<>>
  ELSE (IF Head(es).op \in { "errs", "print" } THEN Head(es).arg ELSE <<>>)
         \o Written(Tail(es))

RECURSIVE Stream(_)
Stream(h) == IF h = <<>> THEN <<>> ELSE Written(Head(h).calls) \o Stream(Tail(h))

NotesRejected(i) == \E k \in At(i, "readGCNO") : ~Calls(i)[k].arg.ret

NotesAccepted(i) == \E k \in At(i, "readGCNO") : Calls(i)[k].arg.ret

Rendered(i) == At(i, "gcovOneInput") # {}

Render(i) == Calls(i)[CHOOSE k \in At(i, "gcovOneInput") : TRUE].arg

\* Call i is the running one and stands right before the Reporting step.
AboutToReport(i) == i = Len(hist) /\ hist[i].outcome = "running" /\ pc = "report"

(***************************************************************************)
(* C1.  gcovOneInput is invoked for a source file only after, in the same  *)
(* call, the notes file was loaded without a load error and readGCNO       *)
(* returned true; nothing is required of the data-file step.               *)
(***************************************************************************)
C1_RenderOnlyAfterNotesParsed ==
  \A i \in Runs : \A k \in At(i, "gcovOneInput") :
    \E a \in At(i, "load"), b \in At(i, "readGCNO") :
      /\ a < b /\ b < k
      /\ Calls(i)[a].arg.name = ResolvedGCNO(i)
      /\ Calls(i)[a].arg.res[1] = "buf"
      /\ Calls(i)[b].arg.ret

\* A file was rendered although its data file was rejected by readGCDA, and
\* another although its data file could not be found.
C1_Witness ==
  \E i, j \in Runs :
    /\ Rendered(i) /\ \E k \in At(i, "readGCDA") : ~Calls(i)[k].arg.ret
    /\ Rendered(j) /\ At(j, "readGCDAFormat") = {}

(***************************************************************************)
(* C2.  A notes load that fails, with whatever error code, makes the call  *)
(* write exactly "<notes file name>: <system error message>" and end in    *)
(* Failed with the load as its only call: no readGCNO, no data load, no    *)
(* gcovOneInput.  errs() holds what the calls wrote, in order.             *)
(***************************************************************************)
NotesLoadFailed(i) == HasNotesLoad(i) /\ NotesLoad(i).res[1] = "err"

C2_NotesLoadErrorEndsCall ==
  /\ errs = Stream(hist)
  /\ \A i \in Runs :
       NotesLoadFailed(i) =>
         /\ NotesLoad(i).name = ResolvedGCNO(i)
         /\ hist[i].outcome = "Failed"
         /\ Diagnostics(i) =
              << ResolvedGCNO(i) \o <<": ">>
                   \o message(NotesLoad(i).res[2]) \o <<"\n">> >>
         /\ At(i, "load") = {1}
         /\ At(i, "readGCNO") = {}
         /\ At(i, "gcovOneInput") = {}
         /\ At(i, "print") = {}

\* One call failed on a missing notes file and another on an I/O error.
C2_Witness ==
  \E i, j \in Runs :
    /\ NotesLoadFailed(i) /\ NotesLoad(i).res[2] = "ENOENT"
    /\ NotesLoadFailed(j) /\ NotesLoad(j).res[2] = "EIO"

(***************************************************************************)
(* C3.  A notes file that loads but is rejected by readGCNO makes the call *)
(* write "Invalid .gcno File!" and end in Failed; the call performs no     *)
(* load besides the notes load (the data file is not attempted) and does   *)
(* not invoke gcovOneInput.                                                *)
(***************************************************************************)
C3_RejectedNotesEndsCall ==
  \A i \in Runs :
    NotesRejected(i) =>
      /\ hist[i].outcome = "Failed"
      /\ Diagnostics(i) = << <<"Invalid .gcno File!\n">> >>
      /\ At(i, "load") = {1}
      /\ NotesLoad(i).res[1] = "buf"
      /\ DataLoadAt(i) = {}
      /\ At(i, "readGCDAFormat") = {}
      /\ At(i, "gcovOneInput") = {}

\* A call was ended by a rejected notes file whose data-file name differs
\* from the notes-file name.
C3_Witness ==
  \E i \in Runs :
    /\ NotesRejected(i)
    /\ EndedRun(i)
    /\ ResolvedGCDA(i) # ResolvedGCNO(i)

\* The graph of call i after an accepted notes file and nothing else.
NotesOnlyGraph(i) ==
  { [kind |-> "notes", from |-> ResolvedGCNO(i), run |-> i, ok |-> TRUE] }

RenderedOnce(i) == Cardinality(At(i, "gcovOneInput")) = 1

(***************************************************************************)
(* C4.  After a valid notes file, a data load that fails with "no such     *)
(* file" writes no diagnostic, runs neither readGCDAFormat nor readGCDA,   *)
(* sets the data-file name to "-" and leads to gcovOneInput being invoked  *)
(* with the name "-" and the graph holding the notes only.                 *)
(***************************************************************************)
DataMissing(i) ==
  DataLoadAt(i) # {} /\ DataLoad(i).res = <<"err", "ENOENT">>

C4_MissingDataFallsBack ==
  \A i \in Runs :
    DataMissing(i) =>
      /\ NotesAccepted(i)
      /\ DataLoad(i).name = ResolvedGCDA(i)
      /\ Diagnostics(i) = <<>>
      /\ At(i, "readGCDAFormat") = {}
      /\ At(i, "readGCDA") = {}
      /\ IF EndedRun(i)
         THEN /\ hist[i].outcome = "Done"
              /\ RenderedOnce(i)
              /\ Render(i).GCDA = <<"-">>
              /\ Render(i).GF = NotesOnlyGraph(i)
         ELSE /\ AboutToReport(i)
              /\ GCDA = <<"-">>
              /\ GF = NotesOnlyGraph(i)

\* A file without a data file was rendered, with the dump switched on.
C4_Witness ==
  \E i \in Runs : DataMissing(i) /\ Rendered(i) /\ DumpGCOV

(***************************************************************************)
(* C5.  After a valid notes file, a data load that fails with any error    *)
(* other than "no such file" writes "<data file name>: <system error       *)
(* message>", ends the call in Failed and gcovOneInput is not invoked.     *)
(***************************************************************************)
DataLoadBroken(i) ==
  /\ DataLoadAt(i) # {}
  /\ DataLoad(i).res[1] = "err"
  /\ DataLoad(i).res[2] # "ENOENT"

C5_DataLoadErrorEndsCall ==
  \A i \in Runs :
    DataLoadBroken(i) =>
      /\ NotesAccepted(i)
      /\ DataLoad(i).name = ResolvedGCDA(i)
      /\ hist[i].outcome = "Failed"
      /\ Diagnostics(i) =
           << ResolvedGCDA(i) \o <<": ">>
                \o message(DataLoad(i).res[2]) \o <<"\n">> >>
      /\ At(i, "gcovOneInput") = {}
      /\ At(i, "print") = {}
      /\ At(i, "readGCDAFormat") = {}

\* A call whose notes file parsed was ended by an I/O error on a data file
\* that is not standard input.
C5_Witness ==
  \E i \in Runs :
    DataLoadBroken(i) /\ NotesAccepted(i) /\ ResolvedGCDA(i) # <<"-">>

(***************************************************************************)
(* C6.  A data file that loads but fails readGCDAFormat makes the call     *)
(* write "<data file name>:not a gcov data file" and nothing else (so not  *)
(* "Invalid .gcda File!"); readGCDA is not invoked, and the call goes on   *)
(* to Reporting, where gcovOneInput is invoked.                            *)
(***************************************************************************)
HeaderFailed(i) == \E k \in At(i, "readGCDAFormat") : ~Calls(i)[k].arg

C6_BadHeaderStillReports ==
  \A i \in Runs :
    HeaderFailed(i) =>
      /\ DataLoad(i).res[1] = "buf"
      /\ Diagnostics(i) =
           << ResolvedGCDA(i) \o <<":not a gcov data file\n">> >>
      /\ At(i, "readGCDA") = {}
      /\ IF EndedRun(i)
         THEN /\ hist[i].outcome = "Done"
              /\ RenderedOnce(i)
              /\ Render(i).GCDA = ResolvedGCDA(i)
         ELSE AboutToReport(i)

\* A file whose data file has a foreign header was rendered.
C6_Witness ==
  \E i \in Runs : HeaderFailed(i) /\ Rendered(i) /\ hist[i].outcome = "Done"

(***************************************************************************)
(* C7.  A data file that loads and passes readGCDAFormat but is rejected   *)
(* by readGCDA makes the call write "Invalid .gcda File!"; the call goes   *)
(* on to Reporting, gcovOneInput is invoked exactly once and the call ends *)
(* in Done, not Failed.                                                    *)
(***************************************************************************)
DataRejected(i) == \E k \in At(i, "readGCDA") : ~Calls(i)[k].arg.ret

C7_RejectedDataStillReports ==
  \A i \in Runs :
    DataRejected(i) =>
      /\ \E k \in At(i, "readGCDAFormat") : Calls(i)[k].arg
      /\ Diagnostics(i) = << <<"Invalid .gcda File!\n">> >>
      /\ hist[i].outcome # "Failed"
      /\ IF EndedRun(i)
         THEN hist[i].outcome = "Done" /\ RenderedOnce(i)
         ELSE AboutToReport(i) /\ ~Rendered(i)

\* After a rejected data file the call ended in Done, having rendered.
C7_Witness ==
  \E i \in Runs : DataRejected(i) /\ hist[i].outcome = "Done" /\ RenderedOnce(i)

InCall ==
  pc \in { "loadNotes", "validateNotes", "loadData", "validateData", "report" }

(***************************************************************************)
(* C8.  gcovMain calls reportCoverage exactly once per SourceFiles entry,  *)
(* in list order; a call starts only when every earlier call has ended in  *)
(* Done or Failed, and when gcovMain returns every entry has had its call, *)
(* whatever the outcomes of the earlier ones.                              *)
(***************************************************************************)
C8_OneCallPerEntryInOrder ==
  /\ Len(hist) = idx
  /\ idx <= Len(SourceFiles)
  /\ \A i \in Runs : hist[i].SourceFile = SourceFiles[i]
  /\ \A i \in Runs : i < Len(hist) => EndedRun(i)
  /\ InCall => hist[Len(hist)].outcome = "running"
  /\ pc \in { "loop", "exit" } => \A i \in Runs : EndedRun(i)
  /\ pc = "exit" => Len(hist) = Len(SourceFiles)

\* gcovMain has returned after a failed first file and a rendered second one.
C8_Witness ==
  /\ pc = "exit"
  /\ Len(hist) = 2
  /\ SourceFiles[1] # SourceFiles[2]
  /\ hist[1].outcome = "Failed"
  /\ hist[2].outcome = "Done"

(***************************************************************************)
(* C9.  After argument parsing gcovMain eventually returns, every source   *)
(* file having ended in Done or Failed, and the value it returns is 0 in   *)
(* every run, also when every file ended in Failed.                        *)
(***************************************************************************)
C9_TerminatesWithSuccess ==
  /\ [](exitCode \in { -1, 0 })
  /\ <>[](/\ pc = "exit"
          /\ exitCode = 0
          /\ Len(hist) = Len(SourceFiles)
          /\ \A i \in Runs : EndedRun(i))

\* gcovMain has returned 0 although both of its source files failed.
C9_Witness ==
  /\ pc = "exit"
  /\ exitCode = 0
  /\ Len(hist) = 2
  /\ \A i \in Runs : hist[i].outcome = "Failed"

(***************************************************************************)
(* C10.  Every call works on a graph of its own that starts empty: the     *)
(* graph readGCNO receives is empty, the graph readGCDA receives holds the *)
(* call's own notes only, and the graph handed to gcovOneInput holds       *)
(* nothing but what this call read from its own notes and data file.       *)
(***************************************************************************)
OwnParts(i, G) ==
  \A q \in G : q.run = i /\ q.from \in { ResolvedGCNO(i), ResolvedGCDA(i) }

C10_FreshGraphPerCall ==
  /\ pc \in { "loadNotes", "validateNotes" } => GF = {}
  /\ InCall => OwnParts(idx, GF)
  /\ \A i \in Runs :
       /\ \A k \in At(i, "readGCNO") : Calls(i)[k].arg.graph = {}
       /\ \A k \in At(i, "readGCDA") : Calls(i)[k].arg.graph = NotesOnlyGraph(i)
       /\ \A k \in At(i, "gcovOneInput") : OwnParts(i, Calls(i)[k].arg.GF)

\* A later call rendered a graph after an earlier call had filled its own.
C10_Witness ==
  \E i \in Runs :
    /\ i > 1
    /\ hist[i - 1].graph # {}
    /\ Rendered(i)
    /\ Render(i).GF # {}

(***************************************************************************)
(* C11.  createCoverageFileStem(p, o) is parent_path(p) joined with        *)
(* stem(p) when o is empty; o joined with stem(p), whatever p's directory, *)
(* when o is non-empty and an existing directory; and o with its extension *)
(* removed, whatever p, in every other case.  The values the three cases   *)
(* give on the paths of the model are spelled out.                         *)
(***************************************************************************)
StemTable(p, o, isDir) ==
  LET base == IF p = <<"a", ".", "c">> THEN <<"a">> ELSE <<"b">>
  IN  IF o = <<>>
      THEN IF p = <<"a", ".", "c">> THEN <<"a">> ELSE <<"d", "/", "b">>
      ELSE IF isDir THEN o \o <<"/">> \o base
      ELSE IF o = <<"x", ".", "o">> THEN <<"x">> ELSE o

C11_StemByOverrideKind ==
  \A i \in Runs :
       LET p == hist[i].SourceFile
           s == IF i = Len(hist) /\ InCall THEN CoverageFileStem
                ELSE createCoverageFileStem(SourceFiles[i], ObjectDir)
       IN  /\ ObjectDir = <<>> => s = append(parent_path(p), stem(p))
           /\ ObjectDir # <<>> /\ ObjectDir \in dirs
                => s = append(ObjectDir, stem(p))
           /\ ObjectDir # <<>> /\ ObjectDir \notin dirs
                => s = replace_extension(ObjectDir, <<>>)
           /\ p \in { <<"a", ".", "c">>, <<"d", "/", "b", ".", "c">> }
                /\ ObjectDir \in { <<>>, <<"o">>, <<"x", ".", "o">> }
                => s = StemTable(p, ObjectDir, ObjectDir \in dirs)

\* With -o x.o not a directory, the stem of d/b.c is x; the call is under way.
C11_Witness ==
  /\ InCall
  /\ SourceFile = <<"d", "/", "b", ".", "c">>
  /\ ObjectDir = <<"x", ".", "o">>
  /\ ObjectDir \notin dirs
  /\ CoverageFileStem = <<"x">>

(***************************************************************************)
(* C12.  The name reportCoverage loads for an artifact is the override     *)
(* verbatim when a non-empty override is given, whatever the stem, and     *)
(* otherwise the stem followed by ".gcno" for the notes file and ".gcda"   *)
(* for the data file; each name depends on its own override only.          *)
(***************************************************************************)
C12_ArtifactNames ==
  \A i \in Runs :
    /\ HasNotesLoad(i) =>
         NotesLoad(i).name =
           IF InputGCNO # <<>> THEN InputGCNO
           ELSE ResolvedStem(i) \o <<".", "g", "c", "n", "o">>
    /\ DataLoadAt(i) # {} =>
         DataLoad(i).name =
           IF InputGCDA # <<>> THEN InputGCDA
           ELSE ResolvedStem(i) \o <<".", "g", "c", "d", "a">>

\* The notes name was overridden and the data name was derived from the stem.
C12_Witness ==
  \E i \in Runs :
    /\ DataLoadAt(i) # {}
    /\ InputGCNO = <<"n">>
    /\ NotesLoad(i).name = <<"n">>
    /\ InputGCDA = <<>>
    /\ DataLoad(i).name = <<"a", ".", "g", "c", "d", "a">>

(***************************************************************************)
(* Two calls of one gcovMain run on the same source path have the same     *)
(* inputs: the options, -o, --gcno, --gcda and --dump are those of the run *)
(* and a file gives at every access what it gave at the first.             *)
(***************************************************************************)
SameInputs(i, j) == hist[i].SourceFile = hist[j].SourceFile

\* Everything call i wrote to errs(), dump included.
Output(i) == Written(Calls(i))

\* A graph as call i sees it: each part, and whether this call read it.
Seen(i, G) ==
  { [kind |-> q.kind, from |-> q.from, ok |-> q.ok, own |-> q.run = i] : q \in G }

\* The gcovOneInput invocation of call i, if any.
Invocation(i) ==
  IF Rendered(i)
  THEN << "gcovOneInput", Render(i).Options, Render(i).SourceFile,
          Render(i).GCNO, Render(i).GCDA, Seen(i, Render(i).GF) >>
  ELSE << "none" >>

ReadsStdin(i) == \E k \in At(i, "load") : Calls(i)[k].arg.name = <<"-">>

(***************************************************************************)
(* C13, as claimed.  Two calls on the same inputs write the same text to   *)
(* errs() and invoke gcovOneInput alike (same arguments, same graph        *)
(* content), or both not at all.                                           *)
(***************************************************************************)
C13_Idempotent_AsClaimed ==
  \A i, j \in Runs :
    EndedRun(i) /\ EndedRun(j) /\ SameInputs(i, j) =>
      /\ Output(i) = Output(j)
      /\ Invocation(i) = Invocation(j)

(***************************************************************************)
(* C13, amended.  Two calls on the same inputs, neither of which loads an  *)
(* artifact from standard input (name "-"), write the same text to errs()  *)
(* and invoke gcovOneInput alike, or both not at all.                      *)
(***************************************************************************)
C13_IdempotentOnFiles ==
  \A i, j \in Runs :
    /\ EndedRun(i) /\ EndedRun(j) /\ SameInputs(i, j)
    /\ ~ReadsStdin(i) /\ ~ReadsStdin(j)
    => /\ Output(i) = Output(j)
       /\ Invocation(i) = Invocation(j)

\* The same source file was rendered twice from files, each time after a
\* complaint about its data file.
C13_Witness ==
  \E i, j \in Runs :
    /\ i # j
    /\ SameInputs(i, j)
    /\ ~ReadsStdin(i) /\ ~ReadsStdin(j)
    /\ Rendered(i) /\ Rendered(j)
    /\ Diagnostics(i) # <<>>
    /\ Diagnostics(j) # <<>>

(***************************************************************************)
(* The steps of a call, numbered in the order of the pipeline.  The first  *)
(* load of a call is the notes load; errs() writes are no steps.           *)
(***************************************************************************)
StepNo(i, k) ==
  LET op == Calls(i)[k].op
  IN  CASE op = "load"           -> IF k = 1 THEN 1 ELSE 3
        [] op = "readGCNO"       -> 2
        [] op = "readGCDAFormat" -> 4
        [] op = "readGCDA"       -> 5
        [] op = "print"          -> 6
        [] op = "gcovOneInput"   -> 7
        [] OTHER                 -> 0

Steps(i) == { k \in 1..Len(Calls(i)) : Calls(i)[k].op # "errs" }

PcNo(p) ==
  CASE p = "loadNotes"     -> 1
    [] p = "validateNotes" -> 2
    [] p = "loadData"      -> 3
    [] p = "validateData"  -> 4
    [] p = "report"        -> 5
    [] OTHER               -> 0

StepsInOrder ==
  \A i \in Runs :
    /\ Calls(i) # <<>> => Calls(i)[1].op = "load"
    /\ \A a, b \in Steps(i) : a < b => StepNo(i, a) < StepNo(i, b)
    /\ \A k \in At(i, "readGCDA") :
         \E n \in At(i, "readGCNO") :
           /\ n < k
           /\ Calls(i)[n].arg.ret
           /\ Calls(i)[k].arg.graph = NotesOnlyGraph(i)

(***************************************************************************)
(* C14.  Within a call the steps occur only in the order load notes,       *)
(* readGCNO, load data, readGCDAFormat, readGCDA, dump, gcovOneInput, each *)
(* at most once; readGCDA comes only after readGCNO returned true on the   *)
(* same graph; the position in the call only moves forward; and once a     *)
(* call has ended in Done or Failed its record never changes and nothing   *)
(* is written to errs() until the next call starts.                        *)
(***************************************************************************)
C14_StepOrder ==
  /\ []StepsInOrder
  /\ [][ /\ \A i \in Runs : EndedRun(i) => i \in 1..Len(hist') /\ hist'[i] = hist[i]
         /\ InCall /\ InCall' => idx' = idx /\ PcNo(pc') > PcNo(pc)
         /\ ~InCall => errs' = errs
         /\ ~InCall /\ InCall' => pc' = "loadNotes" /\ idx' = idx + 1 ]_vars

\* A call went through all seven steps and ended in Done.
C14_Witness ==
  \E i \in Runs :
    /\ hist[i].outcome = "Done"
    /\ { StepNo(i, k) : k \in Steps(i) } = 1..7

(***************************************************************************)
(* C15.  A call dumps the graph exactly when it reaches Reporting and      *)
(* --dump is set; the dump is of the graph handed to gcovOneInput and      *)
(* comes right before that invocation; a call that ends in Failed dumps    *)
(* nothing.  gcovOneInput receives the options, the source path of the     *)
(* list entry and the resolved notes-file name.                            *)
(***************************************************************************)
C15_DumpThenRender ==
  \A i \in Runs :
    /\ ~Rendered(i) => At(i, "print") = {}
    /\ hist[i].outcome = "Failed" => ~Rendered(i)
    /\ hist[i].outcome = "Done" => Rendered(i)
    /\ Rendered(i) =>
         LET r == CHOOSE k \in At(i, "gcovOneInput") : TRUE
         IN  /\ At(i, "print") = IF DumpGCOV THEN { r - 1 } ELSE {}
             /\ DumpGCOV => Calls(i)[r - 1].arg = print(Render(i).GF)
             /\ Render(i).Options = Options
             /\ Render(i).SourceFile = SourceFiles[i]
             /\ Render(i).GCNO = ResolvedGCNO(i)

\* With --dump, one call dumped and rendered and another failed undumped.
C15_Witness ==
  /\ DumpGCOV
  /\ \E i, j \in Runs :
       /\ hist[i].outcome = "Done" /\ At(i, "print") # {}
       /\ hist[j].outcome = "Failed" /\ At(j, "print") = {}

(***************************************************************************)
(* C16, as claimed.  In Reporting the call holds neither the notes buffer  *)
(* nor the data buffer, and outside a call no buffer is held.              *)
(***************************************************************************)
C16_NoBufferInReporting_AsClaimed ==
  /\ pc = "report" => GCNO_Buff = NoBuffer /\ GCDA_Buff = NoBuffer
  /\ ~InCall => GCNO_Buff = NoBuffer /\ GCDA_Buff = NoBuffer

(***************************************************************************)
(* C16, amended.  A buffer is held from its load until reportCoverage      *)
(* returns: from the notes validation on, Reporting included, the call     *)
(* holds the notes buffer; in the data validation and, when the data file  *)
(* was loaded, in Reporting it holds the data buffer; before their loads   *)
(* the buffers are not held, and once the call has ended in Done or Failed *)
(* none is held.                                                           *)
(***************************************************************************)
C16_BuffersHeldUntilReturn ==
  /\ ~InCall => GCNO_Buff = NoBuffer /\ GCDA_Buff = NoBuffer
  /\ pc = "loadNotes" => GCNO_Buff = NoBuffer /\ GCDA_Buff = NoBuffer
  /\ pc \in { "validateNotes", "loadData" } =>
       GCNO_Buff[1] = "buf" /\ GCDA_Buff = NoBuffer
  /\ pc = "validateData" => GCNO_Buff[1] = "buf" /\ GCDA_Buff[1] = "buf"
  /\ pc = "report" =>
       /\ GCNO_Buff[1] = "buf"
       /\ GCDA_Buff = DataLoad(idx).res
       /\ GCDA_Buff[1] = "buf" \/ GCDA_Buff = <<"err", "ENOENT">>

\* The call stands in Reporting holding both buffers, after an earlier call
\* has ended.
C16_Witness ==
  /\ pc = "report"
  /\ idx > 1
  /\ GCNO_Buff[1] = "buf"
  /\ GCDA_Buff[1] = "buf"

(***************************************************************************)
(* C17.  A call writes at most one diagnostic (dump output aside); a call  *)
(* that has ended without invoking gcovOneInput has written exactly one;   *)
(* and a call that wrote a diagnostic and still invoked gcovOneInput is    *)
(* one whose data file failed the header check or was rejected by          *)
(* readGCDA.                                                               *)
(***************************************************************************)
C17_OneDiagnosticPerFailure ==
  \A i \in Runs :
    /\ Len(Diagnostics(i)) <= 1
    /\ EndedRun(i) /\ ~Rendered(i) => Len(Diagnostics(i)) = 1
    /\ Diagnostics(i) # <<>> /\ Rendered(i) => HeaderFailed(i) \/ DataRejected(i)
    /\ HeaderFailed(i) \/ DataRejected(i) => Len(Diagnostics(i)) = 1

\* gcovMain has returned after one call that failed with its one diagnostic
\* and one that rendered after a complaint about the data file's header.
C17_Witness ==
  /\ pc = "exit"
  /\ \E i, j \in Runs :
       /\ hist[i].outcome = "Failed" /\ Len(Diagnostics(i)) = 1
       /\ Rendered(j) /\ HeaderFailed(j) /\ Len(Diagnostics(j)) = 1

(***************************************************************************)
(* C18.  gcovOneInput receives a data-file name other than the resolved    *)
(* one only after a data load that failed with "no such file", and the     *)
(* name is then "-"; after a data file that was loaded, whatever its       *)
(* validation said, it receives the resolved name.  The source path and    *)
(* the notes-file name stay what they were at entry and at the notes load. *)
(***************************************************************************)
C18_NamesHandedOn ==
  /\ InCall => SourceFile = SourceFiles[idx]
  /\ pc \in { "validateNotes", "loadData", "validateData", "report" }
       => GCNO = ResolvedGCNO(idx)
  /\ pc = "validateData" => GCDA = ResolvedGCDA(idx)
  /\ \A i \in Runs :
       Rendered(i) =>
         /\ Render(i).GCDA # ResolvedGCDA(i) => DataMissing(i)
         /\ DataMissing(i) => Render(i).GCDA = <<"-">>
         /\ DataLoad(i).res[1] = "buf" => Render(i).GCDA = ResolvedGCDA(i)
         /\ Render(i).SourceFile = SourceFiles[i]
         /\ Render(i).GCNO = NotesLoad(i).name

\* One call rendered under the resolved name after readGCDA rejected the
\* data file, another rendered under "-" after a missing data file.
C18_Witness ==
  \E i, j \in Runs :
    /\ DataRejected(i) /\ Rendered(i) /\ Render(i).GCDA = ResolvedGCDA(i)
    /\ DataMissing(j) /\ Rendered(j) /\ Render(j).GCDA = <<"-">>
    /\ ResolvedGCDA(j) # <<"-">>

(***************************************************************************)
(* C19.  The "-" put in place of a missing data file is never loaded: a    *)
(* call makes no load after its data load.  A load of "-" is the notes     *)
(* load of a call whose resolved notes name is "-" or the data load of a   *)
(* call whose resolved data name is "-", and standard input has been read  *)
(* only if such a load happened.                                           *)
(***************************************************************************)
C19_PlaceholderNeverLoaded ==
  /\ \A i \in Runs :
       /\ Cardinality(At(i, "load")) <= 2
       /\ \A k \in At(i, "load") :
            Calls(i)[k].arg.name = <<"-">> =>
              \/ k = 1 /\ ResolvedGCNO(i) = <<"-">>
              \/ k > 1 /\ ResolvedGCDA(i) = <<"-">>
       /\ DataMissing(i) =>
            \A k \in At(i, "load") : k = 1 \/ Calls(i)[k].arg.res[1] = "err"
  /\ stdinRead =>
       \E i \in Runs : \E k \in At(i, "load") :
         /\ Calls(i)[k].arg.name = <<"-">>
         /\ Calls(i)[k].arg.res[1] = "buf"
         /\ Calls(i)[k].arg.name \in { ResolvedGCNO(i), ResolvedGCDA(i) }

\* A file was rendered under the placeholder "-" and standard input was
\* never read.
C19_Witness ==
  /\ pc = "exit"
  /\ ~stdinRead
  /\ \E i \in Runs :
       DataMissing(i) /\ Rendered(i) /\ Render(i).GCDA = <<"-">>

====
